---- MODULE Spec2Model ----
(***************************************************************************)
(* Model of src/observability/ebpf/trace_http.c: the eBPF programs that    *)
(* correlate an HTTP handler's start and end (and a generic function's     *)
(* entry and exit) through the hash maps active_requests and               *)
(* trace_contexts, and emit one http_event per matched end.                *)
(*                                                                         *)
(* Text is held as sequences of byte values (ASCII codes); a char buffer   *)
(* that the code zero-initialises and fills with one *_str read is held as *)
(* the C string it contains (the bytes before the first NUL).  The 64-bit  *)
(* key returned by bpf_get_current_pid_tgid() is held as its two 32-bit    *)
(* halves [hi, lo], because TLC's integers are 32 bits wide.               *)
(***************************************************************************)
EXTENDS Integers, Sequences, FiniteSets, TLC

VARIABLES
    active_requests,  \* the map active_requests: key -> struct http_event
    trace_contexts,   \* the map trace_contexts:  key -> struct trace_context
    now,              \* the value bpf_ktime_get_ns() returns
    last,             \* the most recent program invocation and what it did
    hist,             \* per key: the most recent start/end/entry/exit invocation
    scen,             \* progress of the call pattern start(A) start(B) end(A) end(B)
    cpu,              \* per CPU: the program it is running and its position
    emits,            \* per key: perf outputs since the key's entry was last inserted
    codec,            \* a header handed to parse_traceparent, and the result
    max_entries,      \* max_entries of both hash maps, fixed when they are created
    counters          \* the diagnostic counters the programs keep

vars == <<active_requests, trace_contexts, now, last, hist, scen, cpu, emits, codec,
          max_entries, counters>>

(***************************************************************************)
(* Bounds of the model.                                                    *)
(***************************************************************************)
\* The clock takes the values 0..MaxTime.
MaxTime == 2
\* The maps are created with max_entries 1 or MaxEntries: the source's
\* 10240 scaled down, so that a full map is reachable with the keys of Ids.
MaxEntries == 2

(***************************************************************************)
(* Program constants.                                                      *)
(***************************************************************************)
TRACEPARENT_LEN == 55
MAX_PATH_LEN == 128
MAX_METHOD_LEN == 16
TRACE_ID_SIZE == 16
SPAN_ID_SIZE == 8
TRACE_ID_OFFSET == 3
SPAN_ID_OFFSET == 36

Min(a, b) == IF a <= b THEN a ELSE b

\* The keys: bpf_get_current_pid_tgid() of two threads.
Ids == { [hi |-> 1, lo |-> 1], [hi |-> 2, lo |-> 3] }

\* id >> 32 and id & 0xFFFFFFFF
PidOf(id) == id.hi
TidOf(id) == id.lo

\* A pointer argument of a probed function: NULL, or the address of a string.
NULL == [null |-> TRUE, str |-> <<>>]
Ptr(s) == [null |-> FALSE, str |-> s]

\* The 1..n prefix of a string.
Prefix(s, n) == SubSeq(s, 1, Min(Len(s), n))

\* A string written into a zeroed array of n bytes.
Pad(s, n) == [i \in 1..n |-> IF i <= Len(s) THEN s[i] ELSE 0]

\* The C string found at offset off of a zero-padded buffer holding string s.
StrAt(s, off) == IF off >= Len(s) THEN <<>> ELSE SubSeq(s, off + 1, Len(s))

(***************************************************************************)
(* Kernel helpers, as the programs use them.                               *)
(***************************************************************************)
\* bpf_probe_read_user_str(dst, size, src): at most size-1 bytes and a NUL;
\* a NULL src faults and leaves the zeroed dst empty.
bpf_probe_read_user_str(size, src) ==
    IF src.null THEN <<>> ELSE Prefix(src.str, size - 1)

\* bpf_probe_read_kernel_str(dst, size, src) on a readable string.
bpf_probe_read_kernel_str(size, s) == Prefix(s, size - 1)

\* Faulty variant of bpf_map_update_elem: BPF_NOEXIST in place of BPF_ANY, so
\* a present key keeps its value (-EEXIST).
UpdateNoExist(map, key, value, max) ==
    IF key \in DOMAIN map THEN [rc |-> -17, map |-> map]
    ELSE IF Cardinality(DOMAIN map) < max
    THEN [rc |-> 0,
          map |-> [k \in DOMAIN map \cup {key} |-> IF k = key THEN value ELSE map[k]]]
    ELSE [rc |-> -7, map |-> map]
\* Faulty variant of bpf_map_update_elem: a full map makes room by evicting an
\* entry, as an LRU hash map would.
UpdateEvict(map, key, value, max) ==
    IF key \in DOMAIN map \/ Cardinality(DOMAIN map) < max
    THEN [rc |-> 0,
          map |-> [k \in DOMAIN map \cup {key} |-> IF k = key THEN value ELSE map[k]]]
    ELSE LET victim == CHOOSE k \in DOMAIN map : TRUE
         IN  [rc |-> 0,
              map |-> [k \in (DOMAIN map \ {victim}) \cup {key} |->
                          IF k = key THEN value ELSE map[k]]]
\* bpf_map_update_elem(map, key, value, BPF_ANY) on a BPF_MAP_TYPE_HASH of
\* max entries: replaces the value of a present key; inserts an absent key
\* unless the map is full, and then fails with -E2BIG (-7) and changes nothing.
bpf_map_update_elem(map, key, value, max) ==
    IF key \in DOMAIN map \/ Cardinality(DOMAIN map) < max
    THEN [rc |-> 0,
          map |-> [k \in DOMAIN map \cup {key} |-> IF k = key THEN value ELSE map[k]]]
    ELSE [rc |-> -7, map |-> map]

\* Faulty variant of bpf_map_delete_elem: deleting a present key empties the map.
DeleteAll(map, key) == IF key \in DOMAIN map THEN <<>> ELSE map
\* bpf_map_delete_elem(map, key)
bpf_map_delete_elem(map, key) == [k \in DOMAIN map \ {key} |-> map[k]]

\* bpf_map_lookup_elem(map, key) returns a non-NULL pointer
Found(map, key) == key \in DOMAIN map

(***************************************************************************)
(* parse_traceparent(header, ctx), ctx zero-initialised by the caller.     *)
(* header is the address of a zero-padded buffer holding a C string.       *)
(***************************************************************************)
ZeroCtx == [trace_id |-> Pad(<<>>, TRACE_ID_SIZE),
            span_id  |-> Pad(<<>>, SPAN_ID_SIZE),
            flags    |-> 0]

parse_traceparent(header) ==
    IF header.null
    THEN [rc |-> -1, ctx |-> ZeroCtx]
    ELSE [rc |-> 0,
          ctx |-> [trace_id |-> Pad(bpf_probe_read_kernel_str(TRACE_ID_SIZE,
                                        StrAt(header.str, TRACE_ID_OFFSET)),
                                    TRACE_ID_SIZE),
                   span_id  |-> Pad(bpf_probe_read_kernel_str(SPAN_ID_SIZE,
                                        StrAt(header.str, SPAN_ID_OFFSET)),
                                    SPAN_ID_SIZE),
                   flags    |-> 0]]

\* The offsets (from 0) of the buffer at header that
\* bpf_probe_read_kernel_str(dst, size, header + off) reads: the bytes it
\* copies and, when it stops before size - 1 bytes, the NUL it stopped at.
ReadOffsets(size, s, off) ==
    LET n == Len(bpf_probe_read_kernel_str(size, StrAt(s, off)))
    IN  IF n < size - 1 THEN off..(off + n) ELSE off..(off + n - 1)

\* The offsets of the buffer at header that parse_traceparent reads.
parse_traceparent_reads(header) ==
    IF header.null THEN {}
    ELSE ReadOffsets(TRACE_ID_SIZE, header.str, TRACE_ID_OFFSET)
         \cup ReadOffsets(SPAN_ID_SIZE, header.str, SPAN_ID_OFFSET)

(***************************************************************************)
(* Inputs of the probed functions.                                         *)
(***************************************************************************)
\* "GET", "POST", "PUT", and a method of exactly MAX_METHOD_LEN bytes
MethodGet == <<71, 69, 84>>
MethodPost == <<80, 79, 83, 84>>
MethodPut == <<80, 85, 84>>
MethodLong == [i \in 1..MAX_METHOD_LEN |-> 77]
\* "/v1/status", "/x", "/y", and a path of exactly MAX_PATH_LEN bytes
PathStatus == <<47, 118, 49, 47, 115, 116, 97, 116, 117, 115>>
PathX == <<47, 120>>
PathY == <<47, 121>>
PathLong == [i \in 1..MAX_PATH_LEN |-> IF i = 1 THEN 47 ELSE 97]
\* "00-4bf92f3577b34da6a3ce929d0e0e4736-00f067aa0ba902b7-01"
HeaderExample ==
    <<48, 48, 45,
      52, 98, 102, 57, 50, 102, 51, 53, 55, 55, 98, 51, 52, 100, 97, 54,
      97, 51, 99, 101, 57, 50, 57, 100, 48, 101, 48, 101, 52, 55, 51, 54, 45,
      48, 48, 102, 48, 54, 55, 97, 97, 48, 98, 97, 57, 48, 50, 98, 55, 45,
      48, 49>>
\* the example header with one byte too many, and the two-byte header "zz"
HeaderOverlong == HeaderExample \o <<48>>
HeaderShort == <<122, 122>>

Requests ==
    { [method_ptr |-> Ptr(MethodGet), path_ptr |-> Ptr(PathStatus),
       traceparent_ptr |-> Ptr(HeaderExample)],
      [method_ptr |-> Ptr(MethodLong), path_ptr |-> Ptr(PathLong),
       traceparent_ptr |-> Ptr(HeaderShort)],
      [method_ptr |-> Ptr(MethodPut), path_ptr |-> Ptr(PathY),
       traceparent_ptr |-> NULL] }

\* PT_REGS_PARM1 and PT_REGS_PARM2 of the end probe: a status code (one of
\* them wider than 16 bits) and a pointer to the content length, or NULL.
EndArgs ==
    { [status |-> 200, content_len_ptr |-> [null |-> FALSE, val |-> 512]],
      [status |-> 66040, content_len_ptr |-> [null |-> TRUE, val |-> 0]] }

NoArg == [none |-> TRUE]
NoId == [hi |-> 0, lo |-> 0]

(***************************************************************************)
(* The programs.  Each takes the two maps and its inputs and yields the    *)
(* maps it leaves, the return code of its insert (start programs) and the  *)
(* events it hands to bpf_perf_event_output, each with whether the perf    *)
(* buffer accepted it.                                                     *)
(***************************************************************************)
\* struct http_event event = {}
ZeroEvent ==
    [timestamp_ns |-> 0, pid |-> 0, tid |-> 0, method |-> <<>>, path |-> <<>>,
     traceparent |-> <<>>, status_code |-> 0, duration_ns |-> 0,
     content_length |-> 0]

\* The event trace_http_request_start builds (lines 107-125).
StartEvent(id, ts, req) ==
    [ZeroEvent EXCEPT
        !.timestamp_ns = ts,
        !.pid = PidOf(id),
        !.tid = TidOf(id),
        !.method = bpf_probe_read_user_str(MAX_METHOD_LEN, req.method_ptr),
        !.path = bpf_probe_read_user_str(MAX_PATH_LEN, req.path_ptr),
        !.traceparent = bpf_probe_read_user_str(TRACEPARENT_LEN, req.traceparent_ptr)]

\* The trace_contexts map after lines 122-130.
StartContexts(tc, id, event, req) ==
    IF req.traceparent_ptr.null
    THEN tc
    ELSE bpf_map_update_elem(tc, id, parse_traceparent(Ptr(event.traceparent)).ctx,
                             max_entries).map

trace_http_request_start(ar, tc, id, ts, req) ==
    LET event == StartEvent(id, ts, req)
        upd == bpf_map_update_elem(ar, id, event, max_entries)
    IN  [ar |-> upd.map, tc |-> StartContexts(tc, id, event, req),
         rc |-> upd.rc, out |-> <<>>]

\* Faulty variant of EndEvent: the end timestamp stored as the duration.
EndEventNoDuration(event, ts, args) ==
    [event EXCEPT
        !.duration_ns = ts,
        !.status_code = args.status % 65536,
        !.content_length = IF args.content_len_ptr.null THEN @
                           ELSE args.content_len_ptr.val]
\* The event trace_http_request_end completes in place (lines 151-160).
EndEvent(event, ts, args) ==
    [event EXCEPT
        !.duration_ns = ts - event.timestamp_ns,
        !.status_code = args.status % 65536,
        !.content_length = IF args.content_len_ptr.null THEN @
                           ELSE args.content_len_ptr.val]

\* Faulty variant of trace_http_request_end: no check of the lookup's result,
\* so a miss outputs a zero event and cleans up under another key.
EndEmitsOnMiss(ar, tc, id, ts, args, accepted) ==
    IF ~Found(ar, id)
    THEN [ar |-> bpf_map_delete_elem(ar, CHOOSE k \in Ids : k # id),
          tc |-> bpf_map_delete_elem(tc, CHOOSE k \in Ids : k # id),
          rc |-> 0,
          out |-> <<[ev |-> EndEvent(ZeroEvent, ts, args), accepted |-> accepted]>>]
    ELSE [ar |-> bpf_map_delete_elem(ar, id),
          tc |-> bpf_map_delete_elem(tc, id),
          rc |-> 0,
          out |-> <<[ev |-> EndEvent(ar[id], ts, args), accepted |-> accepted]>>]
\* Faulty variant of trace_http_request_end: an event the perf buffer refused
\* is kept in the maps, to be output again by a later end.
EndKeepsRefused(ar, tc, id, ts, args, accepted) ==
    IF ~Found(ar, id)
    THEN [ar |-> ar, tc |-> tc, rc |-> 0, out |-> <<>>]
    ELSE [ar |-> IF accepted THEN bpf_map_delete_elem(ar, id) ELSE ar,
          tc |-> IF accepted THEN bpf_map_delete_elem(tc, id) ELSE tc,
          rc |-> 0,
          out |-> <<[ev |-> EndEvent(ar[id], ts, args), accepted |-> accepted]>>]
trace_http_request_end(ar, tc, id, ts, args, accepted) ==
    IF ~Found(ar, id)
    THEN [ar |-> ar, tc |-> tc, rc |-> 0, out |-> <<>>]
    ELSE [ar |-> bpf_map_delete_elem(ar, id),
          tc |-> bpf_map_delete_elem(tc, id),
          rc |-> 0,
          out |-> <<[ev |-> EndEvent(ar[id], ts, args), accepted |-> accepted]>>]

trace_function_entry(ar, tc, id, ts) ==
    LET event == [ZeroEvent EXCEPT !.timestamp_ns = ts,
                                   !.pid = PidOf(id),
                                   !.tid = TidOf(id)]
        upd == bpf_map_update_elem(ar, id, event, max_entries)
    IN  [ar |-> upd.map, tc |-> tc, rc |-> upd.rc, out |-> <<>>]

trace_function_exit(ar, tc, id, ts, accepted) ==
    IF ~Found(ar, id)
    THEN [ar |-> ar, tc |-> tc, rc |-> 0, out |-> <<>>]
    ELSE [ar |-> bpf_map_delete_elem(ar, id),
          tc |-> tc,
          rc |-> 0,
          out |-> <<[ev |-> [ar[id] EXCEPT !.duration_ns = ts - ar[id].timestamp_ns],
                     accepted |-> accepted]>>]

\* Faulty variant of trace_tcp_sendmsg: the context is taken out of the map,
\* not looked up.
SendmsgTakesContext(ar, tc, id, ts) ==
    [ar |-> ar, tc |-> bpf_map_delete_elem(tc, id), rc |-> 0, out |-> <<>>]
\* trace_tcp_sendmsg looks the context up and does nothing with it;
\* trace_tcp_recvmsg touches no map.
trace_tcp_sendmsg(ar, tc, id, ts) == [ar |-> ar, tc |-> tc, rc |-> 0, out |-> <<>>]
trace_tcp_recvmsg(ar, tc, ts) == [ar |-> ar, tc |-> tc, rc |-> 0, out |-> <<>>]

(***************************************************************************)
(* The record of invocations kept beside the program state.                *)
(*   last: the program invoked most recently, its key and inputs, the      *)
(*         return code of its insert and the events it output;             *)
(*   hist: per key, the start or entry invocation that no end or exit      *)
(*         invocation for the key has followed yet (NoCall otherwise);     *)
(*   scen: see ScenNext.                                                   *)
(***************************************************************************)
NoCall == [op |-> "none", ts |-> 0, arg |-> NoArg, rc |-> 0, replaced |-> FALSE]

\* Whether an insert of event for id replaces an entry that differs from it.
Replaced(ar, id, event) == Found(ar, id) /\ ar[id] # event

\* stage: the length of the longest suffix of the start/end/entry/exit
\* invocations so far that is a prefix of
\*     http start(a), http start(b), http end(a), http end(b), a # b;
\* n: the events the ends of that suffix have output.
ScenNext(s, op, id, nout) ==
    IF op = "http_start"
    THEN IF s.stage = 1 /\ id # s.a
         THEN [stage |-> 2, a |-> s.a, b |-> id, n |-> 0]
         ELSE IF s.stage = 2 /\ id # s.b
         THEN [stage |-> 2, a |-> s.b, b |-> id, n |-> 0]
         ELSE [stage |-> 1, a |-> id, b |-> NoId, n |-> 0]
    ELSE IF op = "http_end" /\ s.stage = 2 /\ id = s.a
    THEN [s EXCEPT !.stage = 3, !.n = nout]
    ELSE IF op = "http_end" /\ s.stage = 3 /\ id = s.b
    THEN [s EXCEPT !.stage = 4, !.n = s.n + nout]
    ELSE [stage |-> 0, a |-> NoId, b |-> NoId, n |-> 0]

Idle == [pc |-> "idle"]

\* The programs' whole writable state is the two hash maps and the perf
\* buffer (lines 57-83): the source declares no counter, and no program
\* writes one, so every action leaves counters as it is.
NoCounters == [capacity_exceeded |-> 0, orphaned_end |-> 0]

\* The state when the programs are attached, the maps empty.
Attached ==
    /\ active_requests = <<>>
    /\ trace_contexts = <<>>
    /\ now = 0
    /\ last = [op |-> "none", id |-> NoId, arg |-> NoArg, rc |-> 0, out |-> <<>>,
               over |-> FALSE]
    /\ hist = [i \in Ids |-> NoCall]
    /\ scen = [stage |-> 0, a |-> NoId, b |-> NoId, n |-> 0]
    /\ cpu = <<Idle, Idle>>
    /\ emits = [i \in Ids |-> 0]
    /\ counters = NoCounters

Init ==
    /\ Attached
    /\ codec = [pc |-> "off"]
    /\ max_entries \in {1, MaxEntries}

\* What an invocation of a start/end/entry/exit program leaves behind.
\* last.arg holds the probed function's parameters the invocation read (an
\* end that finds no entry returns before it reads any); last.over tells
\* whether a start replaced a differing entry, or an end consumed the entry
\* of such a start.  hist keeps the inputs of a start whose insert succeeded.
Invoked(op, id, arg, r, replaced) ==
    /\ active_requests' = r.ar
    /\ trace_contexts' = r.tc
    /\ last' = [op |-> op, id |-> id,
                arg |-> IF op \in {"http_end", "fn_exit"} /\ r.out = <<>>
                        THEN NoArg ELSE arg,
                rc |-> r.rc, out |-> r.out,
                over |-> IF op \in {"http_start", "fn_entry"} THEN replaced
                         ELSE r.out # <<>> /\ hist[id].replaced]
    /\ hist' = [hist EXCEPT ![id] =
                  IF op \in {"http_start", "fn_entry"}
                  THEN IF r.rc = 0
                       THEN [op |-> op, ts |-> now, arg |-> arg, rc |-> r.rc,
                             replaced |-> replaced]
                       ELSE [NoCall EXCEPT !.op = op, !.rc = r.rc]
                  ELSE NoCall]
    /\ scen' = ScenNext(scen, op, id, Len(r.out))
    /\ UNCHANGED <<now, cpu, emits, codec, max_entries,
                   counters>>

\* bpf_ktime_get_ns() is monotonic.
Tick ==
    /\ now < MaxTime
    /\ now' = now + 1
    /\ UNCHANGED <<active_requests, trace_contexts, last, hist, scen, cpu, emits, codec,
                   max_entries, counters>>

HttpStart ==
    \E id \in Ids, req \in Requests :
        Invoked("http_start", id, req,
                trace_http_request_start(active_requests, trace_contexts, id, now, req),
                Replaced(active_requests, id, StartEvent(id, now, req)))

HttpEnd ==
    \E id \in Ids, args \in EndArgs, accepted \in BOOLEAN :
        Invoked("http_end", id, args,
                trace_http_request_end(active_requests, trace_contexts, id, now,
                                       args, accepted),
                FALSE)

FunctionEntry ==
    \E id \in Ids :
        Invoked("fn_entry", id, NoArg,
                trace_function_entry(active_requests, trace_contexts, id, now),
                Replaced(active_requests, id,
                         [ZeroEvent EXCEPT !.timestamp_ns = now, !.pid = PidOf(id),
                                           !.tid = TidOf(id)]))

FunctionExit ==
    \E id \in Ids, accepted \in BOOLEAN :
        Invoked("fn_exit", id, NoArg,
                trace_function_exit(active_requests, trace_contexts, id, now, accepted),
                FALSE)

\* The network hooks are no start or end observation: hist and scen stay.
NetHook(op, id, r) ==
    /\ active_requests' = r.ar
    /\ trace_contexts' = r.tc
    /\ last' = [op |-> op, id |-> id, arg |-> NoArg, rc |-> r.rc, out |-> r.out,
                over |-> FALSE]
    /\ UNCHANGED <<now, hist, scen, cpu, emits, codec, max_entries,
                   counters>>

TcpSendmsg ==
    \E id \in Ids :
        NetHook("tcp_sendmsg", id,
                trace_tcp_sendmsg(active_requests, trace_contexts, id, now))

TcpRecvmsg ==
    NetHook("tcp_recvmsg", NoId,
            trace_tcp_recvmsg(active_requests, trace_contexts, now))

Next ==
    \/ Tick
    \/ HttpStart
    \/ HttpEnd
    \/ FunctionEntry
    \/ FunctionExit
    \/ TcpSendmsg
    \/ TcpRecvmsg

Spec == Init /\ [][Next]_vars

(***************************************************************************)
(* The header codec alone: parse_traceparent on the buffer that            *)
(* trace_http_request_start fills from a header (lines 124-128), for a     *)
(* range of headers: the example, every prefix of it, one byte too many,   *)
(* each byte in turn replaced by "g", each separator replaced by "0", and  *)
(* other versions and flags.                                               *)
(***************************************************************************)
Mutate(h, p, c) == [h EXCEPT ![p] = c]

CodecHeaders ==
    {HeaderExample, HeaderOverlong, HeaderShort}
    \cup {Prefix(HeaderExample, n) : n \in 0..TRACEPARENT_LEN}
    \cup {Mutate(HeaderExample, p, 103) : p \in 1..TRACEPARENT_LEN}
    \cup {Mutate(HeaderExample, p, 48) : p \in {3, 36, 53}}
    \cup {Mutate(HeaderExample, 2, 49), Mutate(HeaderExample, 1, 102),
          Mutate(HeaderExample, 55, 48), Mutate(HeaderExample, 4, 70)}

InitCodec ==
    /\ Attached
    /\ codec \in {[pc |-> "ready", hdr |-> h, buf |-> <<>>, rc |-> 0,
                     ctx |-> ZeroCtx, reads |-> {}] :
                    h \in CodecHeaders}
    /\ max_entries = MaxEntries

ParseHeader ==
    /\ codec.pc = "ready"
    /\ LET buf == bpf_probe_read_user_str(TRACEPARENT_LEN, Ptr(codec.hdr))
           r == parse_traceparent(Ptr(buf))
       IN  codec' = [codec EXCEPT !.pc = "done", !.buf = buf, !.rc = r.rc,
                                  !.ctx = r.ctx,
                                  !.reads = parse_traceparent_reads(Ptr(buf))]
    /\ UNCHANGED <<active_requests, trace_contexts, now, last, hist, scen, cpu, emits,
                   max_entries, counters>>

SpecCodec == InitCodec /\ [][ParseHeader]_vars

(***************************************************************************)
(* The programs run on two CPUs at once, one helper call on a map at a     *)
(* time.  A CPU in an end or exit program holds the pointer its lookup     *)
(* returned; what it writes through the pointer reaches the map's entry    *)
(* while the key is still there.  emits counts the perf outputs per key    *)
(* since the key's entry was last inserted; the bytes output are not       *)
(* recorded here.                                                          *)
(***************************************************************************)
Cpus == {1, 2}

ConcFrame == UNCHANGED <<now, last, hist, scen, codec, max_entries, counters>>

\* lines 104-130: build the event; parse and store the context
CStartBegin(c) ==
    \E id \in Ids, req \in Requests :
        /\ cpu[c].pc = "idle"
        /\ LET event == StartEvent(id, now, req)
           IN  /\ trace_contexts' = StartContexts(trace_contexts, id, event, req)
               /\ cpu' = [cpu EXCEPT ![c] = [pc |-> "start_insert", id |-> id,
                                             ev |-> event]]
        /\ UNCHANGED <<active_requests, emits>>
        /\ ConcFrame

\* line 133
CStartInsert(c) ==
    /\ cpu[c].pc = "start_insert"
    /\ LET upd == bpf_map_update_elem(active_requests, cpu[c].id, cpu[c].ev, max_entries)
       IN  /\ active_requests' = upd.map
           /\ emits' = IF upd.rc = 0 THEN [emits EXCEPT ![cpu[c].id] = 0] ELSE emits
    /\ cpu' = [cpu EXCEPT ![c] = Idle]
    /\ UNCHANGED trace_contexts
    /\ ConcFrame

\* trace_function_entry: one insert
CFunctionEntry(c) ==
    \E id \in Ids :
        /\ cpu[c].pc = "idle"
        /\ LET r == trace_function_entry(active_requests, trace_contexts, id, now)
           IN  /\ active_requests' = r.ar
               /\ emits' = IF r.rc = 0 THEN [emits EXCEPT ![id] = 0] ELSE emits
        /\ UNCHANGED <<trace_contexts, cpu>>
        /\ ConcFrame

\* lines 145-148 and 197-200: the lookup
CEndLookup(c) ==
    \E id \in Ids, op \in {"http_end", "fn_exit"}, args \in EndArgs :
        /\ cpu[c].pc = "idle"
        /\ cpu' = [cpu EXCEPT ![c] =
                     IF Found(active_requests, id)
                     THEN [pc |-> "end_output", op |-> op, id |-> id,
                           args |-> IF op = "http_end" THEN args ELSE NoArg]
                     ELSE Idle]
        /\ UNCHANGED <<active_requests, trace_contexts, emits>>
        /\ ConcFrame

\* lines 151-163 and 202-205: complete the event in place and output it
CEndOutput(c) ==
    /\ cpu[c].pc = "end_output"
    /\ LET id == cpu[c].id
           e == active_requests[id]
       IN  /\ active_requests' =
                 IF ~Found(active_requests, id) THEN active_requests
                 ELSE [active_requests EXCEPT ![id] =
                         IF cpu[c].op = "http_end"
                         THEN EndEvent(e, now, cpu[c].args)
                         ELSE [e EXCEPT !.duration_ns = now - e.timestamp_ns]]
           /\ emits' = [emits EXCEPT ![id] = @ + 1]
    /\ cpu' = [cpu EXCEPT ![c] = [pc |-> "end_delete", op |-> cpu[c].op,
                                  id |-> cpu[c].id]]
    /\ UNCHANGED trace_contexts
    /\ ConcFrame

\* lines 166 and 207
CEndDelete(c) ==
    /\ cpu[c].pc = "end_delete"
    /\ active_requests' = bpf_map_delete_elem(active_requests, cpu[c].id)
    /\ cpu' = [cpu EXCEPT ![c] =
                 IF cpu[c].op = "http_end"
                 THEN [pc |-> "end_delete_ctx", id |-> cpu[c].id]
                 ELSE Idle]
    /\ UNCHANGED <<trace_contexts, emits>>
    /\ ConcFrame

\* line 167
CEndDeleteContext(c) ==
    /\ cpu[c].pc = "end_delete_ctx"
    /\ trace_contexts' = bpf_map_delete_elem(trace_contexts, cpu[c].id)
    /\ cpu' = [cpu EXCEPT ![c] = Idle]
    /\ UNCHANGED <<active_requests, emits>>
    /\ ConcFrame

NextConc ==
    \E c \in Cpus :
        \/ CStartBegin(c)
        \/ CStartInsert(c)
        \/ CFunctionEntry(c)
        \/ CEndLookup(c)
        \/ CEndOutput(c)
        \/ CEndDelete(c)
        \/ CEndDeleteContext(c)

SpecConc == Init /\ [][NextConc]_vars

(***************************************************************************)
(* Vocabulary of the properties.                                           *)
(***************************************************************************)
\* A step that is an invocation of program op (Tick alone leaves last as it
\* is, and it moves the clock).
Step(op) == now' = now /\ last'.op = op

IsPrefix(p, s) == Len(p) <= Len(s) /\ SubSeq(s, 1, Len(p)) = p

\* field is the text at ptr, cut if need be to what a buffer of bound bytes
\* can hold (with or without a terminating NUL).
KeptWithin(field, ptr, bound) ==
    IF ptr.null THEN field = <<>>
    ELSE /\ IsPrefix(field, ptr.str)
         /\ Len(ptr.str) < bound => field = ptr.str
         /\ Len(ptr.str) >= bound => Len(field) \in {bound - 1, bound}

\* ev carries what the start observation h of key id supplied.
FromStart(ev, id, h) ==
    /\ ev.timestamp_ns = h.ts
    /\ ev.pid = PidOf(id)
    /\ ev.tid = TidOf(id)
    /\ KeptWithin(ev.method, h.arg.method_ptr, MAX_METHOD_LEN)
    /\ KeptWithin(ev.path, h.arg.path_ptr, MAX_PATH_LEN)
    /\ KeptWithin(ev.traceparent, h.arg.traceparent_ptr, TRACEPARENT_LEN)

\* ev carries the status and content length the end observation supplied.
FromEnd(ev, args) ==
    /\ ev.status_code = args.status % 65536
    /\ ev.content_length = IF args.content_len_ptr.null THEN 0
                           ELSE args.content_len_ptr.val

\* The invocation just made output exactly one event, built from the start
\* observation h of key id and ended at the present time.
OneEventFrom(id, h) ==
    /\ Len(last'.out) = 1
    /\ FromStart(last'.out[1].ev, id, h)
    /\ last'.out[1].ev.duration_ns = now - h.ts

\* Key k has the same entry, or none, in maps m1 and m2.
SameAt(m1, m2, k) ==
    /\ k \in DOMAIN m1 <=> k \in DOMAIN m2
    /\ k \in DOMAIN m1 => m1[k] = m2[k]

IsHexDigit(c) == c \in 48..57 \/ c \in 97..102 \/ c \in 65..70
HexValue(c) == IF c \in 48..57 THEN c - 48
               ELSE IF c \in 97..102 THEN c - 87 ELSE c - 55

\* h has the layout {2 hex}-{32 hex}-{16 hex}-{2 hex}.
HasLayout(h) ==
    /\ Len(h) = TRACEPARENT_LEN
    /\ \A i \in 1..TRACEPARENT_LEN :
          IF i \in {3, 36, 53} THEN h[i] = 45 ELSE IsHexDigit(h[i])
\* h is a well-formed header of version 00.
WellFormed(h) == HasLayout(h) /\ h[1] = 48 /\ h[2] = 48

(***************************************************************************)
(* C1.  An onStart(id) followed by an onEnd(id), no other start, end,      *)
(* entry or exit for id between them, makes the onEnd output exactly one   *)
(* event whose duration is end time - start time and whose start fields    *)
(* are those given to that onStart, cut to their bounds.                   *)
(***************************************************************************)
\* C1 as claimed: this holds after every onStart.
C1_StartThenEndEmitsOne ==
    [][Step("http_end") /\ hist[last'.id].op = "http_start"
          => OneEventFrom(last'.id, hist[last'.id])]_vars

\* C1 as amended: it holds after every onStart whose insert was not rejected
\* by a full map.
C1_StoredStartThenEndEmitsOne ==
    [][Step("http_end") /\ hist[last'.id].op = "http_start" /\ hist[last'.id].rc = 0
          => OneEventFrom(last'.id, hist[last'.id])]_vars

C1_Witness ==
    /\ last.op = "http_end"
    /\ Len(last.out) = 1
    /\ last.out[1].ev.method # <<>>
    /\ last.out[1].ev.traceparent # <<>>
    /\ last.out[1].ev.duration_ns > 0
    /\ last.out[1].ev.timestamp_ns > 0

(***************************************************************************)
(* C3.  After any onEnd(id) returns, neither map holds an entry for id.    *)
(***************************************************************************)
C3_EndClearsBothMaps ==
    last.op = "http_end"
        => /\ last.id \notin DOMAIN active_requests
           /\ last.id \notin DOMAIN trace_contexts

(***************************************************************************)
(* C4.  An onStart(id) that finds a pending entry for id replaces it, and  *)
(* the onEnd(id) that follows outputs exactly one event, built from that   *)
(* second start's timestamp, method, path and header.                      *)
(***************************************************************************)
C4_SecondStartWins ==
    [][/\ Step("http_start") /\ Found(active_requests, last'.id)
          => /\ Found(active_requests', last'.id)
             /\ FromStart(active_requests'[last'.id], last'.id,
                          [ts |-> now, arg |-> last'.arg])
       /\ Step("http_end") /\ hist[last'.id].op = "http_start"
                           /\ hist[last'.id].replaced
          => OneEventFrom(last'.id, hist[last'.id])]_vars

C4_Witness ==
    /\ last.op = "http_end"
    /\ last.over
    /\ Len(last.out) = 1
    /\ last.out[1].ev.method # <<>>

(***************************************************************************)
(* C5.  An onEnd(id) (or generic exit) that finds no pending entry for id  *)
(* outputs no event and leaves the entries of every other key, in both     *)
(* maps, as they were.                                                     *)
(***************************************************************************)
C5_OrphanEndIsSilent ==
    [][(Step("http_end") \/ Step("fn_exit")) /\ ~Found(active_requests, last'.id)
          => /\ last'.out = <<>>
             /\ \A k \in Ids \ {last'.id} :
                   /\ SameAt(active_requests, active_requests', k)
                   /\ SameAt(trace_contexts, trace_contexts', k)]_vars

C5_Witness ==
    /\ last.op = "http_end"
    /\ last.out = <<>>
    /\ last.id \notin DOMAIN active_requests
    /\ \E k \in Ids \ {last.id} : k \in DOMAIN active_requests
                                  /\ k \in DOMAIN trace_contexts

(***************************************************************************)
(* C6.  In the interleaving start(A), start(B), end(A), end(B) of two      *)
(* distinct keys each end outputs exactly one event, carrying the pid/tid, *)
(* timestamps, method, path, header, status and content length of its own  *)
(* key's observations.                                                     *)
(***************************************************************************)
OwnEvent(id, h) ==
    /\ OneEventFrom(id, h)
    /\ FromEnd(last'.out[1].ev, last'.arg)

\* C6 as claimed.
C6_InterleavedPairs ==
    [][/\ scen.stage = 2 /\ scen'.stage = 3 => OwnEvent(scen.a, hist[scen.a])
       /\ scen.stage = 3 /\ scen'.stage = 4 => OwnEvent(scen.b, hist[scen.b])]_vars

\* C6 as amended: for each of the two keys whose start was not rejected by a
\* full map.
C6_InterleavedStoredPairs ==
    [][/\ scen.stage = 2 /\ scen'.stage = 3 /\ hist[scen.a].rc = 0
          => OwnEvent(scen.a, hist[scen.a])
       /\ scen.stage = 3 /\ scen'.stage = 4 /\ hist[scen.b].rc = 0
          => OwnEvent(scen.b, hist[scen.b])]_vars

C6_Witness ==
    /\ scen.stage = 4
    /\ scen.n = 2
    /\ last.op = "http_end"
    /\ last.id = scen.b
    /\ Len(last.out) = 1
    /\ last.out[1].ev.method # <<>>

(***************************************************************************)
(* C7.  An onStart for a key that is not in the pending map, when that map *)
(* holds max_entries entries, leaves the map exactly as it was: nothing is *)
(* evicted or changed, and the new observation is not stored.              *)
(***************************************************************************)
C7_FullMapRejectsStart ==
    [][(/\ Step("http_start")
        /\ ~Found(active_requests, last'.id)
        /\ Cardinality(DOMAIN active_requests) = max_entries)
          => active_requests' = active_requests]_vars

C7_Witness ==
    /\ last.op = "http_start"
    /\ last.rc # 0
    /\ last.id \notin DOMAIN active_requests
    /\ Cardinality(DOMAIN active_requests) = max_entries

(***************************************************************************)
(* C8.  An onStart given a non-empty header that is not a well-formed      *)
(* version-00 header stores no trace context for id, and the matching      *)
(* onEnd still outputs the event with its timing and status.               *)
(***************************************************************************)
Undecodable(ptr) == ~ptr.null /\ ptr.str # <<>> /\ ~WellFormed(ptr.str)

C8_BadHeaderStoresNoContext ==
    [][/\ Step("http_start") /\ Undecodable(last'.arg.traceparent_ptr)
          => last'.id \notin DOMAIN trace_contexts'
       /\ Step("http_end") /\ hist[last'.id].op = "http_start"
                           /\ hist[last'.id].rc = 0
                           /\ Undecodable(hist[last'.id].arg.traceparent_ptr)
          => OwnEvent(last'.id, hist[last'.id])]_vars

(***************************************************************************)
(* C2.  Two onEnd invocations for the same id that run at once, while one  *)
(* pending entry exists, output one event between them: each pending entry *)
(* is output at most once under every interleaving of lookup, output and   *)
(* delete.                                                                 *)
(***************************************************************************)
C2_EntryCompletesAtMostOnce == \A id \in Ids : emits[id] <= 1

(***************************************************************************)
(* C9.  For every header that is not a well-formed version-00 header,      *)
(* decode fails (MalformedHeader when the layout is wrong,                 *)
(* UnsupportedVersion when only the version is).  parse_traceparent has    *)
(* one failure value, -1.                                                  *)
(***************************************************************************)
C9_NonMatchingHeaderFails ==
    codec.pc = "done" /\ ~WellFormed(codec.hdr) => codec.rc # 0

(***************************************************************************)
(* C10.  For every well-formed version-00 header decode succeeds with      *)
(* trace_id the 16 bytes its 32 hex digits encode, span_id the 8 bytes its *)
(* 16 hex digits encode, and flags the byte its last two digits encode.    *)
(***************************************************************************)
HexBytes(s) ==
    [i \in 1..(Len(s) \div 2) |-> 16 * HexValue(s[2 * i - 1]) + HexValue(s[2 * i])]

C10_WellFormedHeaderDecodes ==
    codec.pc = "done" /\ WellFormed(codec.hdr)
        => /\ codec.rc = 0
           /\ codec.ctx.trace_id = HexBytes(SubSeq(codec.hdr, 4, 35))
           /\ codec.ctx.span_id = HexBytes(SubSeq(codec.hdr, 37, 52))
           /\ codec.ctx.flags = HexBytes(SubSeq(codec.hdr, 54, 55))[1]

(***************************************************************************)
(* C11.  decode reads no position of its input at or beyond the length of  *)
(* the header it is given, whatever that length (empty and one-byte        *)
(* headers included).  Positions count from 0; the header given to         *)
(* parse_traceparent is the C string in the buffer.                        *)
(***************************************************************************)
C11_ReadsWithinHeader ==
    codec.pc = "done" => \A p \in codec.reads : p < Len(codec.buf)

(***************************************************************************)
(* C12.  The text fields of an emitted event equal the start observation's *)
(* inputs when those fit their bounds (method 16 bytes, path 128 bytes,    *)
(* header 55 bytes, so that a full 55-character header is kept whole), and *)
(* equal the input's first bound bytes when it is longer; an over-long     *)
(* field does not make the start fail.                                     *)
(***************************************************************************)
KeptWhole(field, ptr, bound) ==
    IF ptr.null THEN field = <<>>
    ELSE IF Len(ptr.str) <= bound THEN field = ptr.str
    ELSE field = Prefix(ptr.str, bound)

C12_TextFieldsKeptToBound ==
    [][Step("http_end") /\ hist[last'.id].op = "http_start" /\ hist[last'.id].rc = 0
          => /\ Len(last'.out) = 1
             /\ LET ev == last'.out[1].ev
                     req == hist[last'.id].arg
                 IN  /\ KeptWhole(ev.method, req.method_ptr, MAX_METHOD_LEN)
                     /\ KeptWhole(ev.path, req.path_ptr, MAX_PATH_LEN)
                     /\ KeptWhole(ev.traceparent, req.traceparent_ptr,
                                  TRACEPARENT_LEN)]_vars

(***************************************************************************)
(* C13.  The network hooks (trace_tcp_sendmsg, trace_tcp_recvmsg) only     *)
(* look at the trace context: an invocation leaves both maps as they were  *)
(* for every key and outputs no event, so a pending request keeps its      *)
(* entry and its context across network operations.                        *)
(***************************************************************************)
C13_NetHooksChangeNothing ==
    [][Step("tcp_sendmsg") \/ Step("tcp_recvmsg")
          => /\ active_requests' = active_requests
             /\ trace_contexts' = trace_contexts
             /\ last'.out = <<>>]_vars

C13_Witness ==
    /\ last.op = "tcp_sendmsg"
    /\ last.id \in DOMAIN active_requests
    /\ last.id \in DOMAIN trace_contexts
    /\ active_requests[last.id].traceparent # <<>>

(***************************************************************************)
(* C14.  A generic entry(id) followed by a generic exit(id) makes the exit *)
(* output exactly one event with duration exit time - entry time; and      *)
(* every event a generic exit outputs has empty method, path and           *)
(* traceparent, and the exit leaves no entry for id in either map.         *)
(***************************************************************************)
C14_GenericPair ==
    [][/\ Step("fn_exit") /\ hist[last'.id].op = "fn_entry"
          => /\ Len(last'.out) = 1
             /\ last'.out[1].ev.duration_ns = now - hist[last'.id].ts
       /\ Step("fn_exit") /\ last'.out # <<>>
          => /\ last'.out[1].ev.method = <<>>
             /\ last'.out[1].ev.path = <<>>
             /\ last'.out[1].ev.traceparent = <<>>
             /\ last'.id \notin DOMAIN active_requests'
             /\ last'.id \notin DOMAIN trace_contexts']_vars

(***************************************************************************)
(* C15.  When the perf buffer refuses the event of a matched onEnd(id),    *)
(* the event is lost and not tried again: a matched end makes exactly one  *)
(* output attempt, removes the entries of id from both maps whether the    *)
(* attempt was accepted or not, and an onEnd(id) that no new start or      *)
(* entry for id has preceded outputs nothing.                              *)
(***************************************************************************)
C15_RefusedEventIsDropped ==
    [][/\ Step("http_end") /\ Found(active_requests, last'.id)
          => /\ Len(last'.out) = 1
             /\ last'.id \notin DOMAIN active_requests'
             /\ last'.id \notin DOMAIN trace_contexts'
       /\ Step("http_end") /\ hist[last'.id].op = "none"
          => last'.out = <<>>
       /\ (/\ Step("http_end")
           /\ last.op = "http_end" /\ last.id = last'.id
           /\ last.out # <<>> /\ ~last.out[1].accepted)
          => last'.out = <<>>]_vars

C15_Witness ==
    /\ last.op = "http_end"
    /\ Len(last.out) = 1
    /\ ~last.out[1].accepted
    /\ last.out[1].ev.method # <<>>
    /\ last.id \notin DOMAIN active_requests
    /\ last.id \notin DOMAIN trace_contexts

(***************************************************************************)
(* C16.  The capacity-exceeded counter goes up by exactly one at each      *)
(* start observation whose insert a full map rejects, and no other         *)
(* operation changes it.                                                   *)
(***************************************************************************)
C16_RejectedStartIsCounted ==
    [][IF (Step("http_start") \/ Step("fn_entry")) /\ last'.rc # 0
       THEN counters'.capacity_exceeded = counters.capacity_exceeded + 1
       ELSE counters'.capacity_exceeded = counters.capacity_exceeded]_vars

(***************************************************************************)
(* C17.  Every end (or generic exit) that finds no pending entry for its   *)
(* id increments a drop counter, besides outputting no event.              *)
(***************************************************************************)
C17_OrphanEndIsCounted ==
    [][(Step("http_end") \/ Step("fn_exit")) /\ ~Found(active_requests, last'.id)
          => /\ last'.out = <<>>
             /\ counters'.orphaned_end = counters.orphaned_end + 1]_vars

(***************************************************************************)
(* C18.  onStart(id) and the generic entry(id) output no event and change  *)
(* only the entries of their own id: the pending entry and the trace       *)
(* context of every other key stay as they were.                           *)
(***************************************************************************)
C18_StartTouchesOwnKeyOnly ==
    [][Step("http_start") \/ Step("fn_entry")
          => /\ last'.out = <<>>
             /\ \A k \in Ids \ {last'.id} :
                   /\ SameAt(active_requests, active_requests', k)
                   /\ SameAt(trace_contexts, trace_contexts', k)]_vars

C18_Witness ==
    /\ last.op = "http_start"
    /\ last.id \in DOMAIN trace_contexts
    /\ \E k \in Ids \ {last.id} :
          /\ k \in DOMAIN active_requests
          /\ k \in DOMAIN trace_contexts
          /\ active_requests[k].method # <<>>

(***************************************************************************)
(* C19.  Between invocations, every key with an entry in trace_contexts    *)
(* has an entry in active_requests: a trace context does not outlive its   *)
(* pending request, nor exist without one.                                 *)
(***************************************************************************)
C19_ContextHasPendingEntry ==
    DOMAIN trace_contexts \subseteq DOMAIN active_requests

(***************************************************************************)
(* C20.  After an onStart(id) or generic entry(id), a trace context held   *)
(* for id comes from the header of that same observation: after a start    *)
(* without header, and after a generic entry, no context is held for id.   *)
(***************************************************************************)
C20_ContextIsOfThisStart ==
    [][/\ Step("http_start") /\ last'.arg.traceparent_ptr.null
          => last'.id \notin DOMAIN trace_contexts'
       /\ Step("fn_entry")
          => last'.id \notin DOMAIN trace_contexts']_vars

====
